---- MODULE Spec2Model ----
(***************************************************************************)
(* Model of the Vectorcache JavaScript/TypeScript SDK: the client          *)
(* (src/src/client.ts) and its error taxonomy (src/src/errors.ts).         *)
(*                                                                         *)
(* Conventions.  A JavaScript string is a TLA+ string; the value undefined *)
(* (and null, wherever the code cannot tell the two apart) is the marker   *)
(* Undefined.  A string built by a template literal or by concatenation is *)
(* a sequence of fragments (a Text), so `${a}${b}` is <<a, b>>.  Numbers   *)
(* that may be undefined use 0 (timeouts, where || treats 0 and undefined  *)
(* alike) or StatusUndefined (status codes).                               *)
(***************************************************************************)
EXTENDS Integers, Sequences, FiniteSets, TLC

VARIABLES
    client,      \* the fields of the VectorcacheClient instance, if constructed
    ctor,        \* outcome of the latest `new VectorcacheClient(config)`
    calls,       \* one record per invocation of a client method
    fetchLog,    \* every request handed to fetch(), in order
    classified   \* latest direct application of createErrorFromResponse

vars == <<client, ctor, calls, fetchLog, classified>>

----------------------------------------------------------------------------
(* Bounds *)

MaxCalls == 1          \* method invocations per behaviour
MaxHeaderLen == 3      \* characters in a Retry-After header value

----------------------------------------------------------------------------
(* JavaScript values *)

Undefined == "<undefined>"

\* Truthiness of a string-or-undefined value: undefined, null and "" are falsy.
Falsy(v) == v \in {Undefined, ""}

\* a || b on string-or-undefined operands.
Or(a, b) == IF Falsy(a) THEN b ELSE a

\* a || b on numeric operands, 0 standing for 0 and for undefined.
OrNum(a, b) == IF a = 0 THEN b ELSE a

\* A parsed response body.  kind "object" carries the two fields the SDK
\* reads; "null" is the JSON value null; "undefined" is no value at all.
Body(kind, message, detail) == [kind |-> kind, message |-> message, detail |-> detail]
UndefinedBody == Body("undefined", Undefined, Undefined)
NullBody == Body("null", Undefined, Undefined)
Obj(message, detail) == Body("object", message, detail)

\* responseBody?.field
Field(body, f) == IF body.kind = "object" THEN body[f] ELSE Undefined

\* number | undefined, with NaN
NumUndefined == [t |-> "undefined", v |-> 0]
NaN == [t |-> "NaN", v |-> 0]
Num(n) == [t |-> "number", v |-> n]

StatusUndefined == -1

----------------------------------------------------------------------------
(* parseInt(string, 10), on a string given as its sequence of characters *)

Digits == {"0", "1", "2", "3", "4", "5", "6", "7", "8", "9"}

DigitVal(ch) ==
    CASE ch = "0" -> 0 [] ch = "1" -> 1 [] ch = "2" -> 2 [] ch = "3" -> 3
      [] ch = "4" -> 4 [] ch = "5" -> 5 [] ch = "6" -> 6 [] ch = "7" -> 7
      [] ch = "8" -> 8 [] ch = "9" -> 9

RECURSIVE SkipWhitespace(_)
SkipWhitespace(s) ==
    IF s # <<>> /\ Head(s) = " " THEN SkipWhitespace(Tail(s)) ELSE s

RECURSIVE DigitPrefix(_)
DigitPrefix(s) ==
    IF s # <<>> /\ Head(s) \in Digits THEN <<Head(s)>> \o DigitPrefix(Tail(s)) ELSE <<>>

RECURSIVE DecimalValue(_)
DecimalValue(ds) ==
    IF ds = <<>> THEN 0
    ELSE 10 * DecimalValue(SubSeq(ds, 1, Len(ds) - 1)) + DigitVal(ds[Len(ds)])

parseInt(s) ==
    LET t == SkipWhitespace(s)
        signed == t # <<>> /\ Head(t) \in {"+", "-"}
        sign == IF t # <<>> /\ Head(t) = "-" THEN -1 ELSE 1
        ds == DigitPrefix(IF signed THEN Tail(t) ELSE t)
    IN  IF ds = <<>> THEN NaN ELSE Num(sign * DecimalValue(ds))

----------------------------------------------------------------------------
(* errors.ts: the error classes *)

\* A Text holding one string, and the Text of an omitted argument.
Str(s) == <<s>>
UndefinedText == Str(Undefined)

\* A default parameter value applies when the argument is undefined.
DefaultParam(arg, dflt) == IF arg = UndefinedText THEN Str(dflt) ELSE arg

VectorcacheAPIError(message, status, code, details) ==
    [name |-> "VectorcacheAPIError", message |-> message, status |-> status,
     code |-> code, details |-> details, retryAfter |-> NumUndefined]

VectorcacheAuthenticationError(message) ==
    [VectorcacheAPIError(DefaultParam(message, "Invalid or missing API key"),
                         401, "AUTHENTICATION_ERROR", UndefinedBody)
        EXCEPT !.name = "VectorcacheAuthenticationError"]

VectorcacheRateLimitError(message, retryAfter) ==
    [VectorcacheAPIError(DefaultParam(message, "Rate limit exceeded"),
                         429, "RATE_LIMIT_ERROR", UndefinedBody)
        EXCEPT !.name = "VectorcacheRateLimitError", !.retryAfter = retryAfter]

VectorcacheValidationError(message, details) ==
    [VectorcacheAPIError(message, 400, "VALIDATION_ERROR", details)
        EXCEPT !.name = "VectorcacheValidationError"]

VectorcacheNetworkError(message) ==
    [VectorcacheAPIError(DefaultParam(message, "Network error occurred"),
                         StatusUndefined, "NETWORK_ERROR", UndefinedBody)
        EXCEPT !.name = "VectorcacheNetworkError"]

VectorcacheTimeoutError(message) ==
    [VectorcacheAPIError(DefaultParam(message, "Request timeout"),
                         408, "TIMEOUT_ERROR", UndefinedBody)
        EXCEPT !.name = "VectorcacheTimeoutError"]

VectorcacheServerError(message, status) ==
    [VectorcacheAPIError(DefaultParam(message, "Internal server error"),
                         status, "SERVER_ERROR", UndefinedBody)
        EXCEPT !.name = "VectorcacheServerError"]

\* The classes of the taxonomy; every one extends VectorcacheAPIError.
ErrorClasses ==
    {"VectorcacheAPIError", "VectorcacheAuthenticationError",
     "VectorcacheRateLimitError", "VectorcacheValidationError",
     "VectorcacheNetworkError", "VectorcacheTimeoutError",
     "VectorcacheServerError"}

----------------------------------------------------------------------------
(* errors.ts: createErrorFromResponse *)

\* A Retry-After header: absent (headers.get gives null) or a string, given
\* as its sequence of characters.
NoHeader == [present |-> FALSE, value |-> <<>>]
Header(chars) == [present |-> TRUE, value |-> chars]

\* response.headers.get('Retry-After'), and the truthiness test on it
HeaderTruthy(h) == h.present /\ h.value # <<>>

Response(status, statusText, retryAfter) ==
    [status |-> status, statusText |-> statusText, retryAfter |-> retryAfter]

\* Variant of resolveMessage that consults the detail field before the message field.
resolveMessage_DetailFirst(response, responseBody) ==
    Or(Or(Or(Field(responseBody, "detail"), Field(responseBody, "message")),
          response.statusText),
       "Unknown error")

\* Variant of resolveMessage that stops at the body and leaves the message
\* undefined when the body has none.
resolveMessage_BodyOnly(response, responseBody) ==
    Or(Field(responseBody, "message"), Field(responseBody, "detail"))

\* const message = responseBody?.message || responseBody?.detail || statusText || 'Unknown error'
resolveMessage(response, responseBody) ==
    Or(Or(Or(Field(responseBody, "message"), Field(responseBody, "detail")),
          response.statusText),
       "Unknown error")

\* retryAfter ? parseInt(retryAfter, 10) : undefined
resolveRetryAfter(response) ==
    IF HeaderTruthy(response.retryAfter)
    THEN parseInt(response.retryAfter.value)
    ELSE NumUndefined

\* Variant of createErrorFromResponse whose switch has no case for 403.
createErrorFromResponse_No403(response, responseBody) ==
    LET status == response.status
        message == Str(resolveMessage(response, responseBody))
    IN  CASE status = 400 -> VectorcacheValidationError(message, responseBody)
          [] status = 401 -> VectorcacheAuthenticationError(message)
          [] status = 408 -> VectorcacheTimeoutError(message)
          [] status = 429 ->
                VectorcacheRateLimitError(message, resolveRetryAfter(response))
          [] status \in {500, 502, 503, 504} -> VectorcacheServerError(message, status)
          [] OTHER -> VectorcacheAPIError(message, status, "API_ERROR", responseBody)

createErrorFromResponse(response, responseBody) ==
    LET status == response.status
        message == Str(resolveMessage(response, responseBody))
    IN  CASE status = 400 -> VectorcacheValidationError(message, responseBody)
          [] status \in {401, 403} -> VectorcacheAuthenticationError(message)
          [] status = 408 -> VectorcacheTimeoutError(message)
          [] status = 429 ->
                VectorcacheRateLimitError(message, resolveRetryAfter(response))
          [] status \in {500, 502, 503, 504} -> VectorcacheServerError(message, status)
          [] OTHER -> VectorcacheAPIError(message, status, "API_ERROR", responseBody)

----------------------------------------------------------------------------
(* Inputs of the direct application of createErrorFromResponse *)

Statuses == {100, 200, 301, 400, 401, 403, 404, 408, 418, 429,
             500, 501, 502, 503, 504, 599}
MappedStatuses == {400, 401, 403, 408, 429, 500, 502, 503, 504}
IsOk(status) == status \in 200..299

StatusTexts == {"", "Reason Phrase"}
FieldValues(text) == {Undefined, "", text}
Bodies ==
    {Obj(m, d) : m \in FieldValues("the message"), d \in FieldValues("the detail")}
        \cup {NullBody, UndefinedBody}

HeaderChars == {"0", "1", "2", "x", " "}
RECURSIVE CharSeqs(_)
CharSeqs(n) ==
    IF n = 0 THEN {<<>>}
    ELSE LET shorter == CharSeqs(n - 1)
         IN  shorter \cup {Append(s, ch) : s \in shorter, ch \in HeaderChars}
RetryAfterHeaders == {NoHeader} \cup {Header(s) : s \in CharSeqs(MaxHeaderLen)}

NotClassified ==
    [called |-> FALSE, response |-> Response(0, "", NoHeader),
     body |-> UndefinedBody, error |-> VectorcacheAPIError(UndefinedText, StatusUndefined, Undefined, UndefinedBody)]

----------------------------------------------------------------------------
(* client.ts: construction *)

Config(apiKey, baseUrl, projectId, timeout) ==
    [apiKey |-> apiKey, baseUrl |-> baseUrl, projectId |-> projectId, timeout |-> timeout]

\* The configurations handed to the constructor: the credential absent, empty
\* or set; the other fields all omitted or all given.
ApiKeys == {Undefined, "", "test-api-key"}
Configs ==
    {Config(k, Undefined, Undefined, 0) : k \in ApiKeys}
        \cup {Config(k, "https://api.test.com", "default-project", 5000) : k \in ApiKeys}

DefaultBaseUrl == "https://api.vectorcache.com"
DefaultTimeout == 30000

NoClient ==
    [constructed |-> FALSE, apiKey |-> Undefined, baseUrl |-> Undefined,
     defaultProjectId |-> Undefined, timeout |-> 0]

\* Variant of constructorThrows that rejects only an absent credential.
constructorThrows_AbsentOnly(config) == config.apiKey = Undefined

\* if (!config.apiKey) throw new Error('API key is required')
constructorThrows(config) == Falsy(config.apiKey)

NewClient(config) ==
    [constructed |-> TRUE,
     apiKey |-> config.apiKey,
     baseUrl |-> Or(config.baseUrl, DefaultBaseUrl),
     defaultProjectId |-> config.projectId,
     timeout |-> OrNum(config.timeout, DefaultTimeout)]

\* An error that is no VectorcacheAPIError: a plain Error, a TypeError, ...
RawError(name, message) ==
    [VectorcacheAPIError(Str(message), StatusUndefined, Undefined, UndefinedBody)
        EXCEPT !.name = name]

NoError == RawError("none", Undefined)

NotConstructed == [outcome |-> "none", config |-> Config(Undefined, Undefined, Undefined, 0), error |-> NoError]

\* new VectorcacheClient(config).  One client object is followed; once it
\* exists, further constructions would make other objects.
Construct(config) ==
    /\ ~client.constructed
    /\ IF constructorThrows(config)
       THEN /\ ctor' = [outcome |-> "threw", config |-> config,
                        error |-> RawError("Error", "API key is required")]
            /\ UNCHANGED client
       ELSE /\ ctor' = [outcome |-> "ok", config |-> config, error |-> NoError]
            /\ client' = NewClient(config)
    /\ UNCHANGED <<calls, fetchLog, classified>>

\* getConfig()
getConfig ==
    [baseUrl |-> client.baseUrl, projectId |-> client.defaultProjectId,
     timeout |-> client.timeout]

\* Variant of setDefaultProjectId that re-targets the requests already
\* handed to fetch().
setDefaultProjectId_Retroactive(projectId) ==
    /\ client.constructed
    /\ client.defaultProjectId # projectId
    /\ client' = [client EXCEPT !.defaultProjectId = projectId]
    /\ fetchLog' = [i \in DOMAIN fetchLog |->
            [fetchLog[i] EXCEPT !.url = <<client.baseUrl, "/v1/cache/projects/", projectId>>]]
    /\ UNCHANGED <<ctor, calls, classified>>

\* setDefaultProjectId(projectId)
setDefaultProjectId(projectId) ==
    /\ client.constructed
    /\ client.defaultProjectId # projectId
    /\ client' = [client EXCEPT !.defaultProjectId = projectId]
    /\ UNCHANGED <<ctor, calls, fetchLog, classified>>

----------------------------------------------------------------------------
(* client.ts: the inputs of the public methods *)

\* RequestOptions; an omitted options argument reads as both fields undefined.
Options(projectId, timeout) == [projectId |-> projectId, timeout |-> timeout]
NoOptions == Options(Undefined, 0)

\* A request object with one field, possibly with a reference to itself.
Payload(field, value, circular) ==
    [present |-> TRUE, field |-> field, value |-> value, circular |-> circular]
NoPayload == [present |-> FALSE, field |-> Undefined, value |-> Undefined, circular |-> FALSE]

\* JSON.stringify of a request object that has no cycle
JSONstringify(body) == <<"{\"", body.field, "\":\"", body.value, "\"}">>

\* encodeURIComponent, on a string given as its sequence of characters
EncodeChar(ch) ==
    CASE ch = " " -> "%20" [] ch = "&" -> "%26" [] ch = "?" -> "%3F"
      [] ch = "/" -> "%2F" [] OTHER -> ch
encodeURIComponent(s) == [i \in 1..Len(s) |-> EncodeChar(s[i])]

CallIds == 1..MaxCalls
Calls == DOMAIN calls

ExplicitProjectIds == {Undefined, "", "explicit-project"}
OverrideProjectIds == {Undefined, "", "override-project"}
TimeoutOverrides == {0, 1000}
NewProjectIds == {"new-project-id"}
QueryRequests == {Payload("query", "Test query", FALSE), Payload("query", "Test query", TRUE)}
TestRequests == {Payload("prompt", "What is AI?", FALSE)}
ClearRequests == {Payload("project_id", "explicit-project", FALSE)}
SimilarQueries == {<<"a", " ", "&", "b", "?">>}

----------------------------------------------------------------------------
(* client.ts: one invocation of a public method *)

NoResponse == Response(0, "", NoHeader)

Pending == [kind |-> "pending", value |-> UndefinedBody, error |-> NoError]
Returned(value) == [kind |-> "returned", value |-> value, error |-> NoError]
Threw(error) == [kind |-> "threw", value |-> UndefinedBody, error |-> error]

\* pc: "idle" not invoked, "fetch" awaiting fetch(), "text" awaiting
\* response.text(), "done" settled.  timer: the setTimeout of the call, "none",
\* "armed", "cleared" or "fired".  aborted: controller.signal.aborted.
\* caught: the value the catch block of makeRequest received, if it ran.
IdleCall ==
    [pc |-> "idle", op |-> "none", projectId |-> Undefined, options |-> NoOptions,
     query |-> <<>>, body |-> NoPayload, timeout |-> 0, timer |-> "none",
     aborted |-> FALSE, response |-> NoResponse, text |-> Undefined,
     caught |-> NoError, result |-> Pending]

Invoked(op, projectId, options, query, body) ==
    [IdleCall EXCEPT !.op = op, !.projectId = projectId, !.options = options,
                     !.query = query, !.body = body]

Settle(call, result) == [call EXCEPT !.pc = "done", !.result = result]

instanceofAPIError(error) == error.name \in ErrorClasses
instanceofError(error) == error.name # "non-Error"

\* Variant of catchError with no branch for AbortError.
catchError_AbortAsNetwork(error, timeout) ==
    IF instanceofAPIError(error) THEN error
    ELSE IF instanceofError(error)
         THEN VectorcacheNetworkError(<<"Network error: ">> \o error.message)
         ELSE VectorcacheAPIError(Str("Unknown error occurred"), StatusUndefined,
                                  Undefined, UndefinedBody)

\* The catch block of makeRequest.
catchError(error, timeout) ==
    IF instanceofAPIError(error) THEN error
    ELSE IF instanceofError(error)
         THEN IF error.name = "AbortError"
              THEN VectorcacheTimeoutError(<<"Request timeout after ", ToString(timeout), "ms">>)
              ELSE VectorcacheNetworkError(<<"Network error: ">> \o error.message)
         ELSE VectorcacheAPIError(Str("Unknown error occurred"), StatusUndefined,
                                  Undefined, UndefinedBody)

\* The try block threw error: the catch block settles the call.
Catch(call, error) ==
    [Settle(call, Threw(catchError(error, call.timeout))) EXCEPT !.caught = error]

\* Variant of resolveTimeout that ignores the per-call override.
resolveTimeout_DefaultOnly(options) == client.timeout

\* const timeout = options?.timeout || this.timeout
resolveTimeout(options) == OrNum(options.timeout, client.timeout)

\* makeRequest up to its first await: the request is built (JSON.stringify
\* runs before the try block), the controller and the timer are created and
\* fetch() is called.
makeRequest(c, call, method, endpoint, body, options) ==
    LET url == <<client.baseUrl>> \o endpoint
        timeout == resolveTimeout(options)
        headers == [Authorization |-> <<"Bearer ", client.apiKey>>,
                    ContentType |-> "application/json",
                    UserAgent |-> "vectorcache-js/0.1.0"]
    IN  IF body.present /\ body.circular
        THEN /\ calls' = [calls EXCEPT ![c] =
                    Settle(call, Threw(RawError("TypeError", "Converting circular structure to JSON")))]
             /\ UNCHANGED fetchLog
        ELSE /\ calls' = [calls EXCEPT ![c] =
                    [call EXCEPT !.pc = "fetch", !.timeout = timeout, !.timer = "armed"]]
             /\ fetchLog' = Append(fetchLog,
                    [call |-> c, method |-> method, url |-> url, headers |-> headers,
                     body |-> IF body.present THEN JSONstringify(body) ELSE <<>>])

CanInvoke(c) == client.constructed /\ calls[c].pc = "idle"

query(c, request, options) ==
    /\ CanInvoke(c)
    /\ makeRequest(c, Invoked("query", Undefined, options, <<>>, request),
                   "POST", <<"/v1/cache/query">>, request, options)
    /\ UNCHANGED <<client, ctor, classified>>

testCache(c, request, options) ==
    /\ CanInvoke(c)
    /\ makeRequest(c, Invoked("testCache", Undefined, options, <<>>, request),
                   "POST", <<"/v1/cache/test">>, request, options)
    /\ UNCHANGED <<client, ctor, classified>>

\* Variant of resolveProjectId that prefers the configured default.
resolveProjectId_DefaultFirst(projectId, options) ==
    Or(Or(client.defaultProjectId, projectId), options.projectId)

\* const id = projectId || options?.projectId || this.defaultProjectId
resolveProjectId(projectId, options) ==
    Or(Or(projectId, options.projectId), client.defaultProjectId)

\* Variant of missingProjectId that never rejects.
missingProjectId_Never(id) == FALSE

\* if (!id)
missingProjectId(id) == Falsy(id)

\* throw new VectorcacheAPIError('Project ID is required')
ProjectIdRequired ==
    VectorcacheAPIError(Str("Project ID is required"), StatusUndefined, Undefined, UndefinedBody)

getCacheStats(c, projectId, options) ==
    LET id == resolveProjectId(projectId, options)
        call == Invoked("getCacheStats", projectId, options, <<>>, NoPayload)
    IN  /\ CanInvoke(c)
        /\ IF missingProjectId(id)
           THEN /\ calls' = [calls EXCEPT ![c] = Settle(call, Threw(ProjectIdRequired))]
                /\ UNCHANGED fetchLog
           ELSE makeRequest(c, call, "GET", <<"/v1/cache/projects/", id, "/stats">>,
                            NoPayload, options)
        /\ UNCHANGED <<client, ctor, classified>>

clearCache(c, request, options) ==
    /\ CanInvoke(c)
    /\ makeRequest(c, Invoked("clearCache", Undefined, options, <<>>, request),
                   "POST", <<"/v1/cache/clear">>, request, options)
    /\ UNCHANGED <<client, ctor, classified>>

findSimilarQueries(c, q, projectId, options) ==
    LET id == resolveProjectId(projectId, options)
        call == Invoked("findSimilarQueries", projectId, options, q, NoPayload)
    IN  /\ CanInvoke(c)
        /\ IF missingProjectId(id)
           THEN /\ calls' = [calls EXCEPT ![c] = Settle(call, Threw(ProjectIdRequired))]
                /\ UNCHANGED fetchLog
           ELSE makeRequest(c, call, "GET",
                            <<"/v1/cache/projects/", id, "/similar?query=">>
                                \o encodeURIComponent(q),
                            NoPayload, options)
        /\ UNCHANGED <<client, ctor, classified>>

health(c) ==
    /\ CanInvoke(c)
    /\ makeRequest(c, Invoked("health", Undefined, NoOptions, <<>>, NoPayload),
                   "GET", <<"/health">>, NoPayload, NoOptions)
    /\ UNCHANGED <<client, ctor, classified>>

----------------------------------------------------------------------------
(* client.ts: makeRequest after its first await *)

\* What the server may answer, and the body texts it may send.
ServerResponses ==
    {Response(200, "OK", NoHeader), Response(400, "Bad Request", NoHeader)}

BodyTexts == {"", "{\"message\":\"the message\"}", "Bad Gateway"}

\* Failures of the transport: an Error, and a thrown value that is no Error.
TransportFailures ==
    {RawError("TypeError", "fetch failed"), RawError("non-Error", "thrown string")}
BodyReadFailures == {RawError("TypeError", "terminated")}

\* JSON.parse on the texts above: the value, or a SyntaxError.
JSONparse(text) ==
    CASE text = "{}" -> [ok |-> TRUE, value |-> Obj(Undefined, Undefined)]
      [] text = "{\"message\":\"the message\"}" ->
            [ok |-> TRUE, value |-> Obj("the message", Undefined)]
      [] text = "null" -> [ok |-> TRUE, value |-> NullBody]
      [] OTHER -> [ok |-> FALSE, value |-> UndefinedBody]

\* Variant of parseResponseBody that drops a text it cannot parse.
parseResponseBody_DropText(responseText) ==
    IF responseText = "" THEN Obj(Undefined, Undefined)
    ELSE IF JSONparse(responseText).ok THEN JSONparse(responseText).value
    ELSE Obj(Undefined, Undefined)

\* try { responseBody = responseText ? JSON.parse(responseText) : {} }
\* catch { responseBody = { message: responseText } }
parseResponseBody(responseText) ==
    IF responseText = "" THEN Obj(Undefined, Undefined)
    ELSE IF JSONparse(responseText).ok THEN JSONparse(responseText).value
    ELSE Obj(responseText, Undefined)

\* Variant of TimerFire with one controller shared by all the calls.
TimerFire_SharedController(c) ==
    /\ calls[c].timer = "armed"
    /\ calls' = [d \in DOMAIN calls |->
            IF d = c THEN [calls[d] EXCEPT !.timer = "fired", !.aborted = TRUE]
            ELSE [calls[d] EXCEPT !.aborted = TRUE]]
    /\ UNCHANGED <<client, ctor, fetchLog, classified>>

\* The timer of call c expires: controller.abort().
TimerFire(c) ==
    /\ calls[c].timer = "armed"
    /\ calls' = [calls EXCEPT ![c].timer = "fired", ![c].aborted = TRUE]
    /\ UNCHANGED <<client, ctor, fetchLog, classified>>

\* fetch() resolves: clearTimeout, then response.text() is awaited.
FetchResolve(c, response) ==
    /\ calls[c].pc = "fetch"
    /\ ~calls[c].aborted
    /\ calls' = [calls EXCEPT ![c].pc = "text", ![c].timer = "cleared",
                              ![c].response = response]
    /\ UNCHANGED <<client, ctor, fetchLog, classified>>

\* Variant of FetchReject that hands the request to fetch() once more.
FetchReject_Retry(c, error) ==
    /\ calls[c].pc = "fetch"
    /\ ~calls[c].aborted
    /\ fetchLog' = fetchLog \o SelectSeq(fetchLog, LAMBDA request : request.call = c)
    /\ UNCHANGED <<client, ctor, calls, classified>>

\* fetch() rejects with a transport failure.
FetchReject(c, error) ==
    /\ calls[c].pc = "fetch"
    /\ ~calls[c].aborted
    /\ calls' = [calls EXCEPT ![c] = Catch(calls[c], error)]
    /\ UNCHANGED <<client, ctor, fetchLog, classified>>

\* fetch() rejects because its signal was aborted.
FetchAbort(c) ==
    /\ calls[c].pc = "fetch"
    /\ calls[c].aborted
    /\ calls' = [calls EXCEPT ![c] =
            Catch(calls[c], RawError("AbortError", "This operation was aborted"))]
    /\ UNCHANGED <<client, ctor, fetchLog, classified>>

\* response.text() resolves: the body is parsed and the status checked.
TextResolve(c, responseText) ==
    LET response == calls[c].response
        responseBody == parseResponseBody(responseText)
        call == [calls[c] EXCEPT !.text = responseText]
    IN  /\ calls[c].pc = "text"
        /\ calls' = [calls EXCEPT ![c] =
                IF ~IsOk(response.status)
                THEN Catch(call, createErrorFromResponse(response, responseBody))
                ELSE Settle(call, Returned(responseBody))]
        /\ UNCHANGED <<client, ctor, fetchLog, classified>>

\* response.text() rejects.
TextReject(c, error) ==
    /\ calls[c].pc = "text"
    /\ calls' = [calls EXCEPT ![c] = Catch(calls[c], error)]
    /\ UNCHANGED <<client, ctor, fetchLog, classified>>

----------------------------------------------------------------------------
(* The client *)

Init ==
    /\ client = NoClient
    /\ ctor = NotConstructed
    /\ calls = [c \in CallIds |-> IdleCall]
    /\ fetchLog = <<>>
    /\ classified = NotClassified

Next ==
    \/ \E config \in Configs : Construct(config)
    \/ \E p \in NewProjectIds : setDefaultProjectId(p)
    \/ \E c \in Calls, r \in QueryRequests, t \in TimeoutOverrides :
            query(c, r, Options(Undefined, t))
    \/ \E c \in Calls, r \in TestRequests : testCache(c, r, NoOptions)
    \/ \E c \in Calls, r \in ClearRequests : clearCache(c, r, NoOptions)
    \/ \E c \in Calls, p \in ExplicitProjectIds, o \in OverrideProjectIds :
            getCacheStats(c, p, Options(o, 0))
    \/ \E c \in Calls, q \in SimilarQueries, p \in ExplicitProjectIds,
          o \in OverrideProjectIds :
            findSimilarQueries(c, q, p, Options(o, 0))
    \/ \E c \in Calls : health(c)
    \/ \E c \in Calls : TimerFire(c)
    \/ \E c \in Calls, response \in ServerResponses : FetchResolve(c, response)
    \/ \E c \in Calls, error \in TransportFailures : FetchReject(c, error)
    \/ \E c \in Calls : FetchAbort(c)
    \/ \E c \in Calls, text \in BodyTexts : TextResolve(c, text)
    \/ \E c \in Calls, error \in BodyReadFailures : TextReject(c, error)

Spec == Init /\ [][Next]_vars

----------------------------------------------------------------------------------------------------------------------------------------
(* createErrorFromResponse applied directly, as the exported function it is *)

\* The response and the parsed body are drawn first; the function is then
\* applied to them once.
InitErrors ==
    /\ client = NoClient
    /\ ctor = NotConstructed
    /\ calls = [c \in CallIds |-> IdleCall]
    /\ fetchLog = <<>>
    /\ \E s \in Statuses, t \in StatusTexts, h \in RetryAfterHeaders, b \in Bodies :
            classified = [NotClassified EXCEPT !.response = Response(s, t, h), !.body = b]

ClassifyResponse ==
    /\ ~classified.called
    /\ classified' = [classified EXCEPT
            !.called = TRUE,
            !.error = createErrorFromResponse(classified.response, classified.body)]
    /\ UNCHANGED <<client, ctor, calls, fetchLog>>

NextErrors == ClassifyResponse

SpecErrors == InitErrors /\ [][NextErrors]_vars

----------------------------------------------------------------------------
(* Queries issued together on one client, as by Promise.all *)

MaxConcurrent == 2

FanOutConfig == Config("test-api-key", "https://api.test.com", "default-project", 5000)
FanOutRequests == {Payload("query", "Test query", FALSE)}
FanOutFailures == {RawError("TypeError", "fetch failed")}
FanOutBodyTexts == {"{\"message\":\"the message\"}"}

\* The client exists; none of the queries has been issued.
InitConcurrent ==
    /\ client = NewClient(FanOutConfig)
    /\ ctor = [outcome |-> "ok", config |-> FanOutConfig, error |-> NoError]
    /\ calls = [c \in 1..MaxConcurrent |-> IdleCall]
    /\ fetchLog = <<>>
    /\ classified = NotClassified

NextConcurrent ==
    \/ \E c \in Calls, r \in FanOutRequests, t \in TimeoutOverrides :
            query(c, r, Options(Undefined, t))
    \/ \E c \in Calls : TimerFire(c)
    \/ \E c \in Calls, response \in ServerResponses : FetchResolve(c, response)
    \/ \E c \in Calls, error \in FanOutFailures : FetchReject(c, error)
    \/ \E c \in Calls : FetchAbort(c)
    \/ \E c \in Calls, text \in FanOutBodyTexts : TextResolve(c, text)
    \/ \E c \in Calls, error \in BodyReadFailures : TextReject(c, error)

SpecConcurrent == InitConcurrent /\ [][NextConcurrent]_vars

----------------------------------------------------------------------------
(* Properties of construction (under Spec) *)

\* C1: constructing a client whose apiKey is empty or absent always throws;
\* no request has been handed to fetch() by then and no client object exists.
C1_EmptyCredentialFails ==
    (ctor.outcome # "none" /\ ctor.config.apiKey \in {Undefined, ""})
        => /\ ctor.outcome = "threw"
           /\ ~client.constructed
           /\ fetchLog = <<>>

C1_Witness ==
    /\ ctor.outcome = "threw"
    /\ ctor.config.apiKey = ""
    /\ ctor.error.name = "Error"

----------------------------------------------------------------------------
(* Properties of createErrorFromResponse (under SpecErrors) *)

Classified(status) == classified.called /\ classified.response.status = status
ClassifiedNonOk == classified.called /\ ~IsOk(classified.response.status)

\* The variant the status table gives.
TableVariant(status) ==
    CASE status = 400 -> "VectorcacheValidationError"
      [] status \in {401, 403} -> "VectorcacheAuthenticationError"
      [] status = 408 -> "VectorcacheTimeoutError"
      [] status = 429 -> "VectorcacheRateLimitError"
      [] status \in {500, 502, 503, 504} -> "VectorcacheServerError"
      [] OTHER -> "VectorcacheAPIError"

\* C2: every non-2xx status is classified, as exactly the variant of the
\* table: 400 Validation, 401 and 403 Authentication, 408 Timeout, 429
\* RateLimit, 500/502/503/504 Server, any other the generic API error (code
\* API_ERROR); the result is always a class of the taxonomy.
C2_StatusTable ==
    ClassifiedNonOk =>
        /\ classified.error.name = TableVariant(classified.response.status)
        /\ classified.error.name \in ErrorClasses
        /\ (classified.response.status \notin MappedStatuses
                => classified.error.code = "API_ERROR")

C2_Witness ==
    /\ Classified(418)
    /\ classified.error.name = "VectorcacheAPIError"
    /\ classified.error.code = "API_ERROR"

\* C3: the error built from a non-2xx response carries the status of that
\* response.  (Fails for 403: the Authentication class fixes its status to 401.)
C3_StatusPreserved ==
    ClassifiedNonOk => classified.error.status = classified.response.status

\* A body field that exists, whatever its value, and one that holds a
\* non-empty string.
FieldPresent(f) == Field(classified.body, f) # Undefined
FieldNonEmpty(f) == Field(classified.body, f) \notin {Undefined, ""}
HasReasonPhrase == classified.response.statusText \notin {Undefined, ""}
ReasonOrFallback ==
    IF HasReasonPhrase THEN classified.response.statusText ELSE "Unknown error"

\* C4 as stated: the message is the body's message field if present, else the
\* body's detail field if present, else the reason phrase, else the fallback.
C4_PresentFieldWins ==
    classified.called =>
        classified.error.message =
            Str(IF FieldPresent("message") THEN classified.body.message
                ELSE IF FieldPresent("detail") THEN classified.body.detail
                ELSE ReasonOrFallback)

\* C4 (amended): for every variant the message is the first non-empty one of
\* the body's message field, the body's detail field and the reason phrase,
\* else "Unknown error"; a field that is present but empty is passed over like
\* an absent one.
C4_MessageOrder ==
    classified.called =>
        classified.error.message =
            Str(IF FieldNonEmpty("message") THEN classified.body.message
                ELSE IF FieldNonEmpty("detail") THEN classified.body.detail
                ELSE ReasonOrFallback)

C4_Witness ==
    /\ classified.called
    /\ classified.body = Obj("the message", "the detail")
    /\ classified.response.statusText = "Reason Phrase"
    /\ classified.error.message = Str("the message")

BodyHasNoMessage == ~FieldNonEmpty("message") /\ ~FieldNonEmpty("detail")
AuthenticationDefault == Str("Invalid or missing API key")

\* C5 as stated: a 401 or 403 response whose body carries no message gives an
\* Authentication error with the message "Invalid or missing API key".
C5_DefaultMessage ==
    (classified.called /\ classified.response.status \in {401, 403} /\ BodyHasNoMessage)
        => classified.error.message = AuthenticationDefault

\* C5 (amended): a 401 or 403 response whose body carries no message gives an
\* Authentication error whose message is the response's reason phrase, or
\* "Unknown error" when the reason phrase is empty; it is never the default
\* "Invalid or missing API key" of the class.
C5_ReasonPhraseMessage ==
    (classified.called /\ classified.response.status \in {401, 403} /\ BodyHasNoMessage)
        => /\ classified.error.name = "VectorcacheAuthenticationError"
           /\ classified.error.message = Str(ReasonOrFallback)
           /\ classified.error.message # AuthenticationDefault

C5_Witness ==
    /\ Classified(403)
    /\ classified.body = Obj(Undefined, Undefined)
    /\ classified.response.statusText = ""
    /\ classified.error.name = "VectorcacheAuthenticationError"
    /\ classified.error.message = Str("Unknown error")

\* A header value that is a decimal numeral, and one that holds no digit.
IsNumeral(chars) == chars # <<>> /\ \A i \in 1..Len(chars) : chars[i] \in Digits
HasNoDigit(chars) == \A i \in 1..Len(chars) : chars[i] \notin Digits

\* C6: for a 429 response retryAfter is the Retry-After header read as an
\* integer when the header is a numeral (120 gives 120), and is unset when
\* the header is missing or holds nothing that parses as an integer.
\* (Fails for a header such as "x": retryAfter is NaN, not unset.)
C6_RetryAfter ==
    Classified(429) =>
        LET h == classified.response.retryAfter
        IN  /\ (h.present /\ IsNumeral(h.value))
                    => classified.error.retryAfter = Num(DecimalValue(h.value))
            /\ (~h.present \/ HasNoDigit(h.value))
                    => classified.error.retryAfter = NumUndefined

----------------------------------------------------------------------------
(* Properties of the client methods (under Spec) *)

\* The calls whose response body has been read.
BodyRead(c) == calls[c].pc = "done" /\ calls[c].text # Undefined
InvalidJSON(text) == ~JSONparse(text).ok

\* What makeRequest does with a response whose parsed body is responseBody.
OutcomeWith(c, responseBody) ==
    IF IsOk(calls[c].response.status)
    THEN calls[c].result = Returned(responseBody)
    ELSE calls[c].result = Threw(createErrorFromResponse(calls[c].response, responseBody))

\* C7 as stated: whatever the status, a body text that is not valid JSON is
\* wrapped as an object with the single field message, which is returned on a
\* 2xx status and classified on any other; no parse exception surfaces.
C7_InvalidBodyWrapped ==
    \A c \in Calls :
        (BodyRead(c) /\ InvalidJSON(calls[c].text))
            => /\ calls[c].result.error.name # "SyntaxError"
               /\ OutcomeWith(c, Obj(calls[c].text, Undefined))

\* C7 (amended): whatever the status, a non-empty body text that is not valid
\* JSON is wrapped as an object with the single field message, which is
\* returned on a 2xx status and classified on any other; an empty body text is
\* not wrapped but read as the empty object; no parse exception surfaces.
C7_NonEmptyInvalidBodyWrapped ==
    \A c \in Calls :
        (BodyRead(c) /\ InvalidJSON(calls[c].text))
            => /\ calls[c].result.error.name # "SyntaxError"
               /\ OutcomeWith(c, IF calls[c].text = ""
                                 THEN Obj(Undefined, Undefined)
                                 ELSE Obj(calls[c].text, Undefined))

C7_Witness ==
    \E c \in Calls :
        /\ BodyRead(c)
        /\ calls[c].text = "Bad Gateway"
        /\ calls[c].response.status = 200
        /\ calls[c].result = Returned(Obj("Bad Gateway", Undefined))

ProjectOps == {"getCacheStats", "findSimilarQueries"}

\* Call c is invoked in this step, as one of the two methods that take a project id.
InvokesProjectOp(c) ==
    /\ calls[c].pc = "idle"
    /\ calls'[c].pc # "idle"
    /\ calls'[c].op \in ProjectOps

\* The requests call c has handed to fetch().
RequestsOf(c) == {i \in 1..Len(fetchLog) : fetchLog[i].call = c}

\* C8: getCacheStats and findSimilarQueries invoked with no explicit project
\* id, no per-call override and no configured default reject at once, and the
\* requests handed to fetch() are unchanged by the invocation.
C8_NoProjectIdNoRequest ==
    [][\A c \in Calls :
        (/\ InvokesProjectOp(c)
         /\ calls'[c].projectId = Undefined
         /\ calls'[c].options.projectId = Undefined
         /\ client.defaultProjectId = Undefined)
            => /\ calls'[c].pc = "done"
               /\ calls'[c].result.kind = "threw"
               /\ fetchLog' = fetchLog]_vars

C8_Witness ==
    \E c \in Calls :
        /\ calls[c].op = "findSimilarQueries"
        /\ calls[c].projectId = Undefined
        /\ calls[c].options.projectId = Undefined
        /\ client.defaultProjectId = Undefined
        /\ calls[c].pc = "done"
        /\ calls[c].result.kind = "threw"
        /\ fetchLog = <<>>

\* C9: the error of a getCacheStats or findSimilarQueries call that resolved
\* no project id is of the Validation class.
\* (Fails: the code throws the base VectorcacheAPIError.)
C9_ValidationClass ==
    \A c \in Calls :
        (/\ calls[c].op \in ProjectOps
         /\ calls[c].pc = "done"
         /\ RequestsOf(c) = {})
            => /\ calls[c].result.kind = "threw"
               /\ calls[c].result.error.name = "VectorcacheValidationError"

\* The first of three values that is given at all, and the first that is a
\* non-empty string.
FirstGiven(a, b, d) == IF a # Undefined THEN a ELSE IF b # Undefined THEN b ELSE d
FirstNonEmpty(a, b, d) ==
    IF a \notin {Undefined, ""} THEN a ELSE IF b \notin {Undefined, ""} THEN b ELSE d

\* The invocation of call c in this step hands fetch() one request, whose
\* path is that of project id.
TargetsProject(c, id) ==
    /\ Len(fetchLog') = Len(fetchLog) + 1
    /\ LET request == fetchLog'[Len(fetchLog')]
       IN  /\ request.call = c
           /\ SubSeq(request.url, 1, 3) = <<client.baseUrl, "/v1/cache/projects/", id>>

\* C10 as stated: the project id in the request path is the explicit argument
\* if given, else the per-call override if given, else the configured default.
C10_GivenIdWins ==
    [][\A c \in Calls :
        (InvokesProjectOp(c) /\ calls'[c].pc = "fetch")
            => TargetsProject(c, FirstGiven(calls'[c].projectId,
                                            calls'[c].options.projectId,
                                            client.defaultProjectId))]_vars

\* C10 (amended): the project id in the request path is the explicit argument
\* if given and not empty, else the per-call override if given and not empty,
\* else the configured default; with a default configured and neither of the
\* others the request targets /v1/cache/projects/<default>/... .
C10_ResolutionOrder ==
    [][\A c \in Calls :
        (InvokesProjectOp(c) /\ calls'[c].pc = "fetch")
            => TargetsProject(c, FirstNonEmpty(calls'[c].projectId,
                                               calls'[c].options.projectId,
                                               client.defaultProjectId))]_vars

C10_Witness ==
    \E c \in Calls :
        /\ calls[c].op = "getCacheStats"
        /\ calls[c].projectId = Undefined
        /\ calls[c].options.projectId = Undefined
        /\ RequestsOf(c) # {}
        /\ \A i \in RequestsOf(c) :
                fetchLog[i].url = <<"https://api.test.com", "/v1/cache/projects/",
                                    "default-project", "/stats">>

----------------------------------------------------------------------------
(* Properties of the timeout (under Spec) *)

\* The timeout a call runs under: the per-call override when one is given,
\* else the timeout of the client.  (An omitted override is written 0.)
ResolvedTimeout(c) ==
    IF calls[c].options.timeout # 0 THEN calls[c].options.timeout ELSE client.timeout

TimeoutMessage(ms) == <<"Request timeout after ", ToString(ms), "ms">>

\* C11: when the timer of a call that still awaits fetch() expires, the
\* controller of that call is aborted; and the only step such a call then
\* takes is to fail with a VectorcacheTimeoutError whose message names the
\* timeout the call was resolved to, in milliseconds.
C11_TimeoutCancelsAndReports ==
    [][\A c \in Calls :
        /\ (/\ calls[c].pc = "fetch"
            /\ calls[c].timer = "armed"
            /\ calls'[c].timer = "fired")
                => (calls'[c].aborted /\ calls'[c].pc = "fetch")
        /\ (/\ calls[c].pc = "fetch"
            /\ calls[c].aborted
            /\ calls'[c] # calls[c])
                => /\ calls'[c].pc = "done"
                   /\ calls'[c].caught.name = "AbortError"
                   /\ calls'[c].result.kind = "threw"
                   /\ calls'[c].result.error.name = "VectorcacheTimeoutError"
                   /\ calls'[c].result.error.message = TimeoutMessage(ResolvedTimeout(c))]_vars

C11_Witness ==
    \E c \in Calls :
        /\ client.timeout = 5000
        /\ calls[c].options.timeout = 1000
        /\ calls[c].pc = "done"
        /\ calls[c].timer = "fired"
        /\ calls[c].aborted
        /\ calls[c].result = Threw(VectorcacheTimeoutError(TimeoutMessage(1000)))

\* Call c has been handed to fetch() and has not settled.
InFlight(c) == calls[c].pc \in {"fetch", "text"}

\* C12: no call outlives its timeout: whichever await a call is pending in,
\* fetch() or response.text(), its timer is still armed, so that expiry can
\* abort it, or its controller has been aborted already.
\* (Fails: the timer is cleared before response.text() is awaited.)
C12_PendingCallHasDeadline ==
    \A c \in Calls :
        InFlight(c) => (calls[c].timer = "armed" \/ calls[c].aborted)

----------------------------------------------------------------------------
(* Properties of the configuration (under Spec) *)

\* C13: a step that sets the default project id to p leaves
\* getConfig().projectId equal to p and changes no call and no request
\* already handed to fetch(); and in every step whatever, the requests handed
\* to fetch() so far keep their URL, project id included.
C13_UpdateNotRetroactive ==
    [][/\ \A p \in NewProjectIds :
            (/\ client.constructed
             /\ client.defaultProjectId # p
             /\ client'.defaultProjectId = p)
                => /\ getConfig'.projectId = p
                   /\ calls' = calls
                   /\ fetchLog' = fetchLog
       /\ Len(fetchLog') >= Len(fetchLog)
       /\ \A i \in 1..Len(fetchLog) : fetchLog'[i] = fetchLog[i]]_vars

C13_Witness ==
    \E c \in Calls :
        /\ getConfig.projectId = "new-project-id"
        /\ InFlight(c)
        /\ calls[c].op = "getCacheStats"
        /\ calls[c].projectId = Undefined
        /\ calls[c].options.projectId = Undefined
        /\ \E i \in RequestsOf(c) :
                fetchLog[i].url = <<"https://api.test.com", "/v1/cache/projects/",
                                    "default-project", "/stats">>

----------------------------------------------------------------------------
(* Properties of the requests and of the outcome (under Spec) *)

C15_EveryFailureTyped ==
    \A c \in Calls :
        /\ calls[c].result.kind = "threw"
                => (calls[c].pc = "done" /\ instanceofAPIError(calls[c].result.error))
        /\ calls[c].caught # NoError => calls[c].result.kind = "threw"

\* The catch block of call c received a value that is no VectorcacheAPIError.
CaughtUntyped(c) == calls[c].caught # NoError /\ ~instanceofAPIError(calls[c].caught)

\* The error call c threw is a VectorcacheNetworkError that carries the
\* message of what was caught.
WrappedAsNetwork(c) ==
    /\ calls[c].result.error.name = "VectorcacheNetworkError"
    /\ calls[c].result.error.message = <<"Network error: ">> \o calls[c].caught.message

\* A VectorcacheAPIError thrown in the try block is rethrown as it is.
TypedRethrown(c) ==
    instanceofAPIError(calls[c].caught) => calls[c].result = Threw(calls[c].caught)

\* C16 as stated: of the untyped failures, an AbortError becomes a
\* VectorcacheTimeoutError and every other one a VectorcacheNetworkError with
\* the underlying message; a typed error is rethrown unchanged.
C16_UntypedFailureIsNetwork ==
    \A c \in Calls :
        /\ CaughtUntyped(c)
                => IF calls[c].caught.name = "AbortError"
                   THEN calls[c].result.error.name = "VectorcacheTimeoutError"
                   ELSE WrappedAsNetwork(c)
        /\ TypedRethrown(c)

\* C16 (amended): of the untyped failures, an Error named AbortError becomes a
\* VectorcacheTimeoutError, every other Error a VectorcacheNetworkError with
\* the underlying message, and a thrown value that is no Error the plain
\* VectorcacheAPIError 'Unknown error occurred'; a typed error is rethrown
\* unchanged.
C16_CatchClassification ==
    \A c \in Calls :
        /\ CaughtUntyped(c)
                => IF ~instanceofError(calls[c].caught)
                   THEN /\ calls[c].result.error.name = "VectorcacheAPIError"
                        /\ calls[c].result.error.message = Str("Unknown error occurred")
                   ELSE IF calls[c].caught.name = "AbortError"
                   THEN calls[c].result.error.name = "VectorcacheTimeoutError"
                   ELSE WrappedAsNetwork(c)
        /\ TypedRethrown(c)

C16_Witness ==
    \E c \in Calls :
        /\ calls[c].pc = "done"
        /\ calls[c].caught = RawError("non-Error", "thrown string")
        /\ calls[c].result.kind = "threw"
        /\ calls[c].result.error =
                VectorcacheAPIError(Str("Unknown error occurred"), StatusUndefined,
                                    Undefined, UndefinedBody)

----------------------------------------------------------------------------
(* Properties of concurrent calls (under SpecConcurrent) *)

\* C17: each call runs under its own timeout, and every step of one call,
\* the expiry of its timer and its failure included, leaves every other call
\* as it was: controller, timer, phase and result.
C17_CallsIndependent ==
    [][\A c \in Calls :
        /\ InFlight(c) => calls[c].timeout = ResolvedTimeout(c)
        /\ calls'[c] # calls[c]
                => \A d \in Calls \ {c} : calls'[d] = calls[d]]_vars

C17_Witness ==
    \E c \in Calls, d \in Calls :
        /\ c # d
        /\ calls[c].pc = "done"
        /\ calls[c].timer = "fired"
        /\ calls[c].result.kind = "threw"
        /\ calls[c].result.error.name = "VectorcacheTimeoutError"
        /\ InFlight(d)
        /\ ~calls[d].aborted
        /\ calls[d].timeout # calls[c].timeout

----------------------------------------------------------------------------
(* Properties of the timer (under Spec) *)

\* C18: a call that has settled, with a result or with an error, has no
\* timer pending: the timer it armed has been cleared or has fired.
\* (Fails: clearTimeout is reached only when fetch() resolves.)
C18_NoTimerLeftBehind ==
    \A c \in Calls :
        calls[c].pc = "done" => calls[c].timer # "armed"

====
